---- MODULE Spec2Model ----
(***************************************************************************)
(* sandtris_rs: the sand physics sweep (src/src/physics.rs) and the        *)
(* connectivity queries (src/src/pathfinding.rs).                          *)
(*                                                                         *)
(* Grids are indexed as in the source, sand[x][y], x the column and y the  *)
(* row, y growing downward.  A cell is 0 (None) or a positive number       *)
(* (Some(t)).  run_rng_physics is generic in the payload T, so the physics *)
(* specification fills the cells with distinct tags; the connectivity      *)
(* specification fills them with colors.                                   *)
(***************************************************************************)
EXTENDS Integers, Sequences, FiniteSets, TLC

\* ------------------------------------------------------------------ bounds
MaxW == 5
MaxH == 3
MaxGrains == 3

\* --------------------------------------------------------- program constants
CHOICES_LEN == 32

VARIABLES
    dim,        \* sand.dim(): <<width, height>>
    sand,       \* the grid, sand[x][y]
    pc,         \* position inside run_rng_physics / run_physics_line
    i,          \* run_rng_physics: index of the destination row of the pair
    rest,       \* run_rng_physics: the rows the iterator has still to yield
    requests,   \* run_physics_line: the requests vector
    changed,    \* run_physics_line: the loop flag
    k,          \* run_physics_line: index of the current for loop
    passes,     \* executions of the while body for the current row pair
    entered,    \* the requests when the current execution of the body began
    rngBools,   \* calls of rng.generate::<bool>() in the current tick
    rngRanges,  \* calls of rng.generate_range(0..CHOICES_LEN) in the current tick
    before,     \* the grid at the entry of the current tick
    logging,    \* whether the results of the draws are recorded in draws
    draws,      \* the results the generator returned in the current tick
    apc,        \* position inside find_spanning_group
    to_see,     \* astar: the heap of (estimated_cost, cost, index)
    parents,    \* astar: the insertion-ordered map node -> (parent index, cost)
    result,     \* the value find_spanning_group returned: <<>> or <<x, y>>
    bpc,        \* position inside find_connected_sand
    seen,       \* bfs_reach: the insertion-ordered set of nodes seen
    bi,         \* bfs_reach: the index of the next node to yield
    connected,  \* the vector collect() builds for find_connected_sand
    upc,        \* position inside Game::update
    play_mode,  \* Game: "Playing", "Paused" or "GameOver"
    animation,  \* Game: NoAnimation or <<affected_pixels>> of RemoveLine
    falling_block,   \* Game: NoBlock or the block that falls
    next_block,      \* Game: the color of the block after it
    control_updates, \* Game: for each Direction, whether its key is held
    queue_drop, \* Game
    score,      \* Game
    combo,      \* Game
    spawned     \* the number of blocks that have appeared

physicsVars ==
    <<pc, i, rest, requests, changed, k, passes, entered, rngBools, rngRanges, before, logging,
      draws>>

pathVars == <<apc, to_see, parents, result>>

floodVars == <<bpc, seen, bi, connected>>

gameVars ==
    <<upc, play_mode, animation, falling_block, next_block, control_updates, queue_drop,
      score, combo, spawned>>

vars == <<dim, sand, physicsVars, pathVars, floodVars, gameVars>>

\* ------------------------------------------------------------------- values
None == 0

Directions == {"Left", "Right", "Down"}

NoRequest == [d |-> "None", next |-> "None"]

\* Option::None of falling_block and of animation
NoBlock == <<>>

NoAnimation == <<>>

\* the fields of Game as Game::new leaves them, outside an update
NoGame ==
    /\ upc = "idle"
    /\ play_mode = "Playing"
    /\ animation = NoAnimation
    /\ falling_block = NoBlock
    /\ next_block = 1
    /\ control_updates = [d \in Directions |-> FALSE]
    /\ queue_drop = FALSE
    /\ score = 0
    /\ combo = 0
    /\ spawned = 0

Req(d, next) == [d |-> d, next |-> next]

Width == dim[1]

Height == dim[2]

Cols(w) == 0 .. (w - 1)

Rows(h) == 0 .. (h - 1)

is_some(grid, x, y) == grid[x][y] # None

CountGrains(grid, w, h) == Cardinality({c \in Cols(w) \X Rows(h) : grid[c[1]][c[2]] # None})

\* the tag put in cell (x, y) of an initial grid of width w
Tag(x, y, w) == 1 + x + y * w

\* ---------------------------------------------------------- run_physics_line
\* once(..) + windows([3, 2]) + once(..): the number of entries of requests
NumEntries(w) == 1 + (IF w >= 3 THEN w - 2 ELSE 0) + 1

\* the column whose grain entry e of requests describes
EntryCol(e, w) == IF e = NumEntries(w) - 1 THEN w - 1 ELSE e

\* SandUnder with column 0 treated like an inner column whose left side is free
SandUnder_OpenLeftEdge(grid, w, row, e) ==
    IF e = 0
    THEN <<FALSE,
           is_some(grid, 1, row),
           is_some(grid, 2, row) \/ is_some(grid, 2, row - 1)>>
    ELSE IF e = NumEntries(w) - 1
    THEN <<is_some(grid, w - 2, row),
           is_some(grid, w - 1, row),
           TRUE>>
    ELSE <<is_some(grid, e - 1, row) \/ is_some(grid, e - 1, row - 1),
           is_some(grid, e, row),
           is_some(grid, e + 1, row) \/ is_some(grid, e + 1, row - 1)>>

\* the array handed to decide_direction for entry e, rows i-1 (source) and i
SandUnder(grid, w, row, e) ==
    IF e = 0
    THEN <<TRUE,
           is_some(grid, 1, row),
           is_some(grid, 2, row) \/ is_some(grid, 2, row - 1)>>
    ELSE IF e = NumEntries(w) - 1
    THEN <<is_some(grid, w - 2, row),
           is_some(grid, w - 1, row),
           TRUE>>
    ELSE <<is_some(grid, e - 1, row) \/ is_some(grid, e - 1, row - 1),
           is_some(grid, e, row),
           is_some(grid, e + 1, row) \/ is_some(grid, e + 1, row - 1)>>

\* which call of the generator decide_direction makes for this array
DrawKind(sand_under) ==
    IF sand_under[2]
    THEN IF ~sand_under[1] /\ ~sand_under[3] THEN "bool" ELSE "none"
    ELSE IF sand_under[1] /\ sand_under[3] THEN "none" ELSE "range"

\* decide_direction with Down written for Right in the second tuple of the
\* coin-flip arm
decide_direction_CoinDown(sand_under, b, r) ==
    CASE sand_under = <<TRUE, TRUE, TRUE>> -> NoRequest
      [] sand_under = <<FALSE, TRUE, TRUE>> -> Req("Left", "None")
      [] sand_under = <<TRUE, FALSE, TRUE>> -> Req("Down", "None")
      [] sand_under = <<TRUE, TRUE, FALSE>> -> Req("Right", "None")
      [] sand_under = <<FALSE, TRUE, FALSE>> ->
            IF b THEN Req("Left", "Right") ELSE Req("Down", "Left")
      [] OTHER ->
            IF r = 0 /\ ~sand_under[1] THEN Req("Left", "Down")
            ELSE IF r = CHOICES_LEN - 1 /\ ~sand_under[3] THEN Req("Right", "Down")
            ELSE Req("Down", "None")

\* decide_direction with None for the second component of the two boundary
\* slots
decide_direction_NoFallback(sand_under, b, r) ==
    CASE sand_under = <<TRUE, TRUE, TRUE>> -> NoRequest
      [] sand_under = <<FALSE, TRUE, TRUE>> -> Req("Left", "None")
      [] sand_under = <<TRUE, FALSE, TRUE>> -> Req("Down", "None")
      [] sand_under = <<TRUE, TRUE, FALSE>> -> Req("Right", "None")
      [] sand_under = <<FALSE, TRUE, FALSE>> ->
            IF b THEN Req("Left", "Right") ELSE Req("Right", "Left")
      [] OTHER ->
            IF r = 0 /\ ~sand_under[1] THEN Req("Left", "None")
            ELSE IF r = CHOICES_LEN - 1 /\ ~sand_under[3] THEN Req("Right", "None")
            ELSE Req("Down", "None")

\* decide_direction; b is the result of rng.generate(), r of generate_range
decide_direction(sand_under, b, r) ==
    CASE sand_under = <<TRUE, TRUE, TRUE>> -> NoRequest
      [] sand_under = <<FALSE, TRUE, TRUE>> -> Req("Left", "None")
      [] sand_under = <<TRUE, FALSE, TRUE>> -> Req("Down", "None")
      [] sand_under = <<TRUE, TRUE, FALSE>> -> Req("Right", "None")
      [] sand_under = <<FALSE, TRUE, FALSE>> ->
            IF b THEN Req("Left", "Right") ELSE Req("Right", "Left")
      [] OTHER ->
            IF r = 0 /\ ~sand_under[1] THEN Req("Left", "Down")
            ELSE IF r = CHOICES_LEN - 1 /\ ~sand_under[3] THEN Req("Right", "Down")
            ELSE Req("Down", "None")

\* Fallback that keeps the vetoed direction as the new secondary
Fallback_Chained(req) == IF req.next = "None" THEN NoRequest ELSE Req(req.next, req.d)

\* next.map(|next| (next, None))
Fallback(req) == IF req.next = "None" THEN NoRequest ELSE Req(req.next, "None")

\* ResolveNeighbors without the arm (Down, Left)
ResolveNeighbors_NoMirror(reqs, ch, left, right) ==
    IF reqs[left + 1].d = "Right" /\ reqs[right + 1].d = "Down"
    THEN [requests |-> [reqs EXCEPT ![left + 1] = Fallback(reqs[left + 1])],
          changed |-> TRUE]
    ELSE [requests |-> reqs, changed |-> ch]

\* the match of the loop over neighbouring pairs (left, right); the result is
\* the requests vector and the changed flag after the match
ResolveNeighbors(reqs, ch, left, right) ==
    IF reqs[left + 1].d = "Right" /\ reqs[right + 1].d = "Down"
    THEN [requests |-> [reqs EXCEPT ![left + 1] = Fallback(reqs[left + 1])],
          changed |-> TRUE]
    ELSE IF reqs[left + 1].d = "Down" /\ reqs[right + 1].d = "Left"
    THEN [requests |-> [reqs EXCEPT ![right + 1] = Fallback(reqs[right + 1])],
          changed |-> TRUE]
    ELSE [requests |-> reqs, changed |-> ch]

\* the if-let of the loop over the pairs two columns apart
ConvergingMatch(reqs, left, right) ==
    reqs[left + 1].d = "Right" /\ reqs[right + 1].d = "Left"

\* ResolveConverging that vetoes both entries
ResolveConverging_Both(reqs, left, right, b) ==
    [reqs EXCEPT ![left + 1] = Fallback(reqs[left + 1]),
                 ![right + 1] = Fallback(reqs[right + 1])]

\* ResolveConverging that vetoes the left entry whatever the bit
ResolveConverging_AlwaysLeft(reqs, left, right, b) ==
    [reqs EXCEPT ![left + 1] = Fallback(reqs[left + 1])]

\* its body; b is the result of rng.generate()
ResolveConverging(reqs, left, right, b) ==
    IF b
    THEN [reqs EXCEPT ![left + 1] = Fallback(reqs[left + 1])]
    ELSE [reqs EXCEPT ![right + 1] = Fallback(reqs[right + 1])]

\* requests.into_iter().map(|request| request.map(|d| d.0))
Resolved(reqs) == [e \in 1 .. Len(reqs) |-> reqs[e].d]

\* ----------------------------------------------------------- run_rng_physics
\* RowPairs without .rev(): the pairs taken from the top pair downward
RowPairs_TopDown(h) == [n \in 1 .. (h - 1) |-> n]

\* (1..sand.dim().1).rev(): the destination rows in the order they are visited
RowPairs(h) == [n \in 1 .. (h - 1) |-> h - n]

\* DestCol with Left and Right exchanged
DestCol_Mirrored(j, m) == IF m = "Left" THEN j + 1 ELSE IF m = "Right" THEN j - 1 ELSE j

\* the destination column of entry j moving in direction m
DestCol(j, m) == IF m = "Left" THEN j - 1 ELSE IF m = "Right" THEN j + 1 ELSE j

\* TakeAndStore without take(): the payload is copied, the source keeps it
TakeAndStore_Copy(grid, j, m, row) ==
    [grid EXCEPT ![DestCol(j, m)][row] = grid[j][row - 1]]

\* sand[[dest, row]] = sand[[j, row - 1]].take()
TakeAndStore(grid, j, m, row) ==
    LET taken == [grid EXCEPT ![j][row - 1] = None]
    IN  [taken EXCEPT ![DestCol(j, m)][row] = grid[j][row - 1]]

\* the for loop over the enumerated directions, entries j .. Len(dirs)-1
RECURSIVE ApplyMoves(_, _, _, _)
ApplyMoves(grid, dirs, row, j) ==
    IF j >= Len(dirs) THEN grid
    ELSE IF dirs[j + 1] = "None" THEN ApplyMoves(grid, dirs, row, j + 1)
    ELSE ApplyMoves(TakeAndStore(grid, j, dirs[j + 1], row), dirs, row, j + 1)

\* a move whose index is outside the array aborts the program
MoveOutOfRange(dirs, w) ==
    \E j \in 0 .. (Len(dirs) - 1) :
        /\ dirs[j + 1] # "None"
        /\ (DestCol(j, dirs[j + 1]) \notin Cols(w) \/ j \notin Cols(w))

\* ---------------------------------------------------------------- generator
\* the slots generate_range(0..CHOICES_LEN) is taken to return: all of them,
\* or the two boundary slots and one of the others when the results are recorded
Slots == IF logging THEN {0, 1, CHOICES_LEN - 1} ELSE 0 .. (CHOICES_LEN - 1)

\* the result of generate::<bool>() as a number
BoolValue(b) == IF b THEN 1 ELSE 0

\* the record of the draws after the generator returned v at the place site:
\* <<row, 0, 0, entry>> in decide_direction, <<row, 1, pass, right>> in the
\* loop over the pairs two columns apart
Drew(log, v, site) == IF logging THEN Append(log, [v |-> v, site |-> site]) ELSE log

\* ------------------------------------------------------------ initial states
Cells(w, h) == Cols(w) \X Rows(h)

TaggedGrid(w, h, occ) ==
    [x \in Cols(w) |-> [y \in Rows(h) |-> IF <<x, y>> \in occ THEN Tag(x, y, w) ELSE None]]

\* every grid of one row or of a single row pair, up to MaxW columns, and the
\* taller grids of 3 columns (the narrowest board whose column 0 is read inside
\* the array) with at most MaxGrains grains; the tick has not been entered
Init ==
    /\ \E w \in 1 .. MaxW, h \in 1 .. MaxH :
          \E occ \in SUBSET Cells(w, h) :
              /\ (h <= 2 \/ (w = 3 /\ Cardinality(occ) <= MaxGrains))
              /\ dim = <<w, h>>
              /\ sand = TaggedGrid(w, h, occ)
    /\ before = sand
    /\ pc = "idle"
    /\ i = 0
    /\ rest = <<>>
    /\ requests = <<>>
    /\ changed = FALSE
    /\ k = 0
    /\ passes = 0
    /\ entered = <<>>
    /\ rngBools = 0
    /\ rngRanges = 0
    /\ logging = FALSE
    /\ draws = <<>>
    /\ apc = "idle"
    /\ to_see = {}
    /\ parents = <<>>
    /\ result = <<>>
    /\ bpc = "idle"
    /\ seen = <<>>
    /\ bi = 0
    /\ connected = <<>>
    /\ NoGame

\* ------------------------------------------------------------------ actions
\* run_rng_physics is entered: for i in (1..sand.dim().1).rev()
StartTick ==
    /\ pc \in {"idle", "done"}
    /\ before' = sand
    /\ rngBools' = 0
    /\ rngRanges' = 0
    /\ draws' = <<>>
    /\ IF RowPairs(Height) = <<>>
       THEN /\ pc' = "done"
            /\ i' = 0
            /\ rest' = <<>>
       ELSE /\ pc' = "line"
            /\ i' = Head(RowPairs(Height))
            /\ rest' = Tail(RowPairs(Height))
    /\ requests' = <<>>
    /\ changed' = FALSE
    /\ k' = 0
    /\ passes' = 0
    /\ entered' = <<>>
    /\ UNCHANGED <<dim, sand, logging, pathVars, floodVars, gameVars>>

\* run_physics_line is entered: both once(..) arguments are evaluated before
\* the chain is consumed; with fewer than 3 columns an occupied sand[[0, 0]]
\* indexes column 1 or 2, which does not exist
LineIndexOutOfRange(grid, w, row) == w < 3 /\ is_some(grid, 0, row - 1)

LineStart ==
    /\ pc = "line"
    /\ pc' = IF LineIndexOutOfRange(sand, Width, i) THEN "panic" ELSE "decide"
    /\ requests' = <<>>
    /\ changed' = FALSE
    /\ k' = 0
    /\ passes' = 0
    /\ entered' = <<>>
    /\ UNCHANGED <<dim, sand, i, rest, rngBools, rngRanges, before, logging, draws,
                 pathVars, floodVars, gameVars>>

\* .map(|o| o.and_then(|s| decide_direction(rng, s))): one entry, left to right
Decide ==
    /\ pc = "decide"
    /\ Len(requests) < NumEntries(Width)
    /\ LET e == Len(requests)
           last == (e + 1 = NumEntries(Width))
       IN  /\ IF ~is_some(sand, EntryCol(e, Width), i - 1)
              THEN /\ requests' = Append(requests, NoRequest)
                   /\ UNCHANGED <<rngBools, rngRanges, draws>>
              ELSE LET su == SandUnder(sand, Width, i, e)
                   IN  CASE DrawKind(su) = "none" ->
                              /\ requests' = Append(requests, decide_direction(su, FALSE, 0))
                              /\ UNCHANGED <<rngBools, rngRanges, draws>>
                         [] DrawKind(su) = "bool" ->
                              /\ \E b \in BOOLEAN :
                                    /\ requests' = Append(requests, decide_direction(su, b, 0))
                                    /\ draws' = Drew(draws, BoolValue(b), <<i, 0, 0, e>>)
                              /\ rngBools' = rngBools + 1
                              /\ UNCHANGED rngRanges
                         [] DrawKind(su) = "range" ->
                              /\ \E r \in Slots :
                                    /\ requests' = Append(requests, decide_direction(su, FALSE, r))
                                    /\ draws' = Drew(draws, r, <<i, 0, 0, e>>)
                              /\ rngRanges' = rngRanges + 1
                              /\ UNCHANGED rngBools
           /\ pc' = IF last THEN "loop" ELSE "decide"
           /\ changed' = last
    /\ UNCHANGED <<dim, sand, i, rest, k, passes, entered, before, logging,
                   pathVars, floodVars, gameVars>>

\* LoopHead without changed = false: the flag, set before the loop, stays set
LoopHead_NoReset ==
    /\ pc = "loop"
    /\ IF changed
       THEN /\ changed' = changed
            /\ passes' = passes + 1
            /\ entered' = requests
            /\ k' = 1
            /\ pc' = "neighbors"
       ELSE /\ pc' = "apply"
            /\ entered' = <<>>
            /\ UNCHANGED <<changed, passes, k>>
    /\ UNCHANGED <<dim, sand, i, rest, requests, rngBools, rngRanges, before, logging, draws,
                 pathVars, floodVars, gameVars>>

\* LoopHead with if in place of while: the body runs once
LoopHead_OnePass ==
    /\ pc = "loop"
    /\ IF changed /\ passes = 0
       THEN /\ changed' = FALSE
            /\ passes' = passes + 1
            /\ entered' = requests
            /\ k' = 1
            /\ pc' = "neighbors"
       ELSE /\ pc' = "apply"
            /\ entered' = <<>>
            /\ UNCHANGED <<changed, passes, k>>
    /\ UNCHANGED <<dim, sand, i, rest, requests, rngBools, rngRanges, before, logging, draws,
                 pathVars, floodVars, gameVars>>

\* while changed { changed = false; ...
LoopHead ==
    /\ pc = "loop"
    /\ IF changed
       THEN /\ changed' = FALSE
            /\ passes' = passes + 1
            /\ entered' = requests
            /\ k' = 1
            /\ pc' = "neighbors"
       ELSE /\ pc' = "apply"
            /\ entered' = <<>>
            /\ UNCHANGED <<changed, passes, k>>
    /\ UNCHANGED <<dim, sand, i, rest, requests, rngBools, rngRanges, before, logging, draws,
                 pathVars, floodVars, gameVars>>

\* for (left, right) in (1..requests.len()).map(|i| (i - 1, i)): one pair
Neighbors ==
    /\ pc = "neighbors"
    /\ IF k < Len(requests)
       THEN /\ requests' = ResolveNeighbors(requests, changed, k - 1, k).requests
            /\ changed' = ResolveNeighbors(requests, changed, k - 1, k).changed
            /\ k' = k + 1
            /\ pc' = "neighbors"
       ELSE /\ k' = 2
            /\ pc' = "converging"
            /\ UNCHANGED <<requests, changed>>
    /\ UNCHANGED <<dim, sand, i, rest, passes, entered, rngBools, rngRanges, before, logging, draws,
                 pathVars, floodVars, gameVars>>

\* Converging with the coin taken from a generator of its own: the result is
\* not one of the results of rng
Converging_OwnCoin ==
    /\ pc = "converging"
    /\ IF k < Len(requests)
       THEN /\ IF ConvergingMatch(requests, k - 2, k)
               THEN /\ changed' = TRUE
                    /\ \E b \in BOOLEAN :
                          requests' = ResolveConverging(requests, k - 2, k, b)
                    /\ UNCHANGED <<rngBools, draws>>
               ELSE UNCHANGED <<changed, requests, rngBools, draws>>
            /\ k' = k + 1
            /\ pc' = "converging"
       ELSE /\ pc' = "loop"
            /\ UNCHANGED <<requests, changed, k, rngBools, draws>>
    /\ UNCHANGED <<dim, sand, i, rest, passes, entered, rngRanges, before, logging,
                   pathVars, floodVars, gameVars>>

\* for (left, right) in (2..requests.len()).map(|i| (i - 2, i)): one pair
Converging ==
    /\ pc = "converging"
    /\ IF k < Len(requests)
       THEN /\ IF ConvergingMatch(requests, k - 2, k)
               THEN /\ changed' = TRUE
                    /\ \E b \in BOOLEAN :
                          /\ requests' = ResolveConverging(requests, k - 2, k, b)
                          /\ draws' = Drew(draws, BoolValue(b), <<i, 1, passes, k>>)
                    /\ rngBools' = rngBools + 1
               ELSE UNCHANGED <<changed, requests, rngBools, draws>>
            /\ k' = k + 1
            /\ pc' = "converging"
       ELSE /\ pc' = "loop"
            /\ UNCHANGED <<requests, changed, k, rngBools, draws>>
    /\ UNCHANGED <<dim, sand, i, rest, passes, entered, rngRanges, before, logging,
                   pathVars, floodVars, gameVars>>

\* the body of the for loop of run_rng_physics for the pair (i - 1, i)
Apply ==
    /\ pc = "apply"
    /\ IF MoveOutOfRange(Resolved(requests), Width)
       THEN /\ pc' = "panic"
            /\ UNCHANGED <<sand, i, rest>>
       ELSE /\ sand' = ApplyMoves(sand, Resolved(requests), i, 0)
            /\ IF rest = <<>>
               THEN /\ pc' = "done"
                    /\ i' = 0
                    /\ rest' = <<>>
               ELSE /\ pc' = "line"
                    /\ i' = Head(rest)
                    /\ rest' = Tail(rest)
    /\ UNCHANGED <<dim, requests, changed, k, passes, entered, rngBools, rngRanges, before, logging,
                   draws,
                 pathVars, floodVars, gameVars>>

Next ==
    \/ StartTick
    \/ LineStart
    \/ Decide
    \/ LoopHead
    \/ Neighbors
    \/ Converging
    \/ Apply

Spec == Init /\ [][Next]_vars

\* run_rng_physics is called again and again on the grid it left
SpecSettle == Init /\ [][Next]_vars /\ WF_vars(Next)

\* the grids of Init that are one row pair, the view run_physics_line is given
InitLive == Init /\ Height = 2

\* the tick is sequential code: whenever a step of it can be taken, one is
SpecLive == InitLive /\ [][Next]_vars /\ WF_vars(Next)

\* the grids of at most MaxGrains grains, of one or two rows or of 3 columns,
\* with the results of the draws recorded
InitDraws ==
    /\ \E w \in 1 .. MaxW, h \in 1 .. MaxH :
          \E occ \in SUBSET Cells(w, h) :
              /\ Cardinality(occ) <= MaxGrains
              /\ (h <= 2 \/ w = 3)
              /\ dim = <<w, h>>
              /\ sand = TaggedGrid(w, h, occ)
    /\ before = sand
    /\ pc = "idle"
    /\ i = 0
    /\ rest = <<>>
    /\ requests = <<>>
    /\ changed = FALSE
    /\ k = 0
    /\ passes = 0
    /\ entered = <<>>
    /\ rngBools = 0
    /\ rngRanges = 0
    /\ logging = TRUE
    /\ draws = <<>>
    /\ apc = "idle"
    /\ to_see = {}
    /\ parents = <<>>
    /\ result = <<>>
    /\ bpc = "idle"
    /\ seen = <<>>
    /\ bi = 0
    /\ connected = <<>>
    /\ NoGame

SpecDraws == InitDraws /\ [][Next]_vars

\* ============================================================== pathfinding
NumColors == 2

\* Node::StartingEdge; Node::Grid(x, y) is <<x, y>>
StartingEdge == <<-1, -1>>

\* grid.get([x, y]) is Some: the index is inside the array
InGrid(w, h, x, y) == x \in Cols(w) /\ y \in Rows(h)

\* test_node without the filter on the color
test_node_AnyColor(grid, w, h, x, y, color) ==
    IF InGrid(w, h, x, y) /\ grid[x][y] # None THEN <<<<x, y>>>> ELSE <<>>

\* test_node: <<x, y>> when the cell exists and holds the color, else nothing
test_node(grid, w, h, x, y, color) ==
    IF InGrid(w, h, x, y) /\ grid[x][y] # None /\ grid[x][y] = color
    THEN <<<<x, y>>>>
    ELSE <<>>

\* find_neighbors without the cell above
find_neighbors_NoUp(grid, w, h, x, y, color) ==
    test_node(grid, w, h, x - 1, y, color)
        \o test_node(grid, w, h, x + 1, y, color)
        \o test_node(grid, w, h, x, y + 1, color)

\* find_neighbors with the first two elements of the array exchanged
find_neighbors_UpFirst(grid, w, h, x, y, color) ==
    test_node(grid, w, h, x, y - 1, color)
        \o test_node(grid, w, h, x - 1, y, color)
        \o test_node(grid, w, h, x + 1, y, color)
        \o test_node(grid, w, h, x, y + 1, color)

\* find_neighbors: left, up, right, down, flattened
find_neighbors(grid, w, h, x, y, color) ==
    test_node(grid, w, h, x - 1, y, color)
        \o test_node(grid, w, h, x, y - 1, color)
        \o test_node(grid, w, h, x + 1, y, color)
        \o test_node(grid, w, h, x, y + 1, color)

\* (0..grid.dim().1).filter_map(|y| grid[[0, y]].map(|_| Node::Grid(0, y)))
RECURSIVE EdgeCells(_, _, _)
EdgeCells(grid, h, y) ==
    IF y >= h THEN <<>>
    ELSE (IF grid[0][y] # None THEN <<<<0, y>>>> ELSE <<>>) \o EdgeCells(grid, h, y + 1)

\* the successors closure of find_spanning_group (every move costs 1)
Successors(grid, w, h, node) ==
    IF node = StartingEdge THEN EdgeCells(grid, h, 0)
    ELSE IF grid[node[1]][node[2]] # None
    THEN find_neighbors(grid, w, h, node[1], node[2], grid[node[1]][node[2]])
    ELSE <<>>

\* the heuristic closure
Heuristic(w, node) == IF node = StartingEdge THEN w ELSE w - 1 - node[1]

\* the success closure
Success(w, node) == IF node = StartingEdge THEN FALSE ELSE node[1] = w - 1

\* the index of the node in the map parents, -1 if it has no entry
IndexOf(par, node) ==
    IF \E n \in 1 .. Len(par) : par[n].node = node
    THEN (CHOOSE n \in 1 .. Len(par) : par[n].node = node) - 1
    ELSE -1

\* the elements BinaryHeap::pop may return: Ord of SmallestCostHolder puts the
\* smallest estimated_cost first and, among equal ones, the largest cost; the
\* order among elements that compare equal is the heap's
Tops(heap) ==
    {t \in heap :
        \A u \in heap :
            \/ t.estimated_cost < u.estimated_cost
            \/ (t.estimated_cost = u.estimated_cost /\ t.cost >= u.cost)}

\* the for loop of astar over the successors of the node at index, from the
\* n-th successor on; the result is the map and the heap after the loop
RECURSIVE Expand(_, _, _, _, _, _, _)
Expand(par, heap, succ, n, index, cost, w) ==
    IF n > Len(succ) THEN [parents |-> par, to_see |-> heap]
    ELSE LET successor == succ[n]
             new_cost == cost + 1
             at == IndexOf(par, successor)
         IN  IF at = -1
             THEN Expand(Append(par, [node |-> successor, parent |-> index, cost |-> new_cost]),
                         heap \cup {[estimated_cost |-> new_cost + Heuristic(w, successor),
                                     cost |-> new_cost,
                                     index |-> Len(par)]},
                         succ, n + 1, index, cost, w)
             ELSE IF par[at + 1].cost > new_cost
             THEN Expand([par EXCEPT ![at + 1] = [node |-> successor, parent |-> index, cost |-> new_cost]],
                         heap \cup {[estimated_cost |-> new_cost + Heuristic(w, successor),
                                     cost |-> new_cost,
                                     index |-> at]},
                         succ, n + 1, index, cost, w)
             ELSE Expand(par, heap, succ, n + 1, index, cost, w)

\* reverse_path: the nodes from the start to the node at index
RECURSIVE ReversePath(_, _)
ReversePath(par, index) ==
    IF par[index + 1].parent = -1 THEN <<par[index + 1].node>>
    ELSE Append(ReversePath(par, par[index + 1].parent), par[index + 1].node)

\* EntryOf reading the last node of the path, path.0[path.0.len() - 1]
EntryOf_Last(path) == IF path[Len(path)] = StartingEdge THEN <<>> ELSE path[Len(path)]

\* .and_then(|path| match path.0[1] { StartingEdge => None, Grid(x, y) => Some((x, y)) })
EntryOf(path) == IF path[2] = StartingEdge THEN <<>> ELSE path[2]

\* the grid whose cells occ hold the colors color[c], the other cells None
ColoredGrid(w, h, occ, color) ==
    [x \in Cols(w) |-> [y \in Rows(h) |-> IF <<x, y>> \in occ THEN color[<<x, y>>] ELSE None]]

\* the grids of the connectivity queries: every coloring of a single row up to
\* MaxW columns and of two rows up to 3 columns, and the taller grids of 3
\* columns with at most MaxGrains grains
InitPath ==
    /\ \E w \in 1 .. MaxW, h \in 1 .. MaxH :
          \E occ \in SUBSET Cells(w, h) :
              /\ \/ h = 1
                 \/ (h = 2 /\ w <= 3)
                 \/ (w = 3 /\ Cardinality(occ) <= MaxGrains)
              /\ \E color \in [occ -> 1 .. NumColors] :
                    /\ dim = <<w, h>>
                    /\ sand = ColoredGrid(w, h, occ, color)
    /\ before = sand
    /\ pc = "idle"
    /\ i = 0
    /\ rest = <<>>
    /\ requests = <<>>
    /\ changed = FALSE
    /\ k = 0
    /\ passes = 0
    /\ entered = <<>>
    /\ rngBools = 0
    /\ rngRanges = 0
    /\ logging = FALSE
    /\ draws = <<>>
    /\ apc = "idle"
    /\ to_see = {}
    /\ parents = <<>>
    /\ result = <<>>
    /\ bpc = "idle"
    /\ seen = <<>>
    /\ bi = 0
    /\ connected = <<>>
    /\ NoGame

\* find_spanning_group is called: astar puts the start in the heap and the map
AstarStart ==
    /\ apc \in {"idle", "done"}
    /\ to_see' = {[estimated_cost |-> 0, cost |-> 0, index |-> 0]}
    /\ parents' = <<[node |-> StartingEdge, parent |-> -1, cost |-> 0]>>
    /\ result' = <<>>
    /\ apc' = "search"
    /\ UNCHANGED <<dim, sand, physicsVars, floodVars, gameVars>>

\* one iteration of while let Some(..) = to_see.pop()
AstarStep ==
    /\ apc = "search"
    /\ to_see # {}
    /\ \E top \in Tops(to_see) :
          LET node == parents[top.index + 1].node
          IN  IF Success(Width, node)
              THEN /\ result' = EntryOf(ReversePath(parents, top.index))
                   /\ apc' = "done"
                   /\ to_see' = to_see \ {top}
                   /\ UNCHANGED parents
              ELSE IF top.cost > parents[top.index + 1].cost
              THEN /\ to_see' = to_see \ {top}
                   /\ UNCHANGED <<parents, result, apc>>
              ELSE LET after == Expand(parents, to_see \ {top},
                                       Successors(sand, Width, Height, node),
                                       1, top.index, top.cost, Width)
                   IN  /\ parents' = after.parents
                       /\ to_see' = after.to_see
                       /\ UNCHANGED <<result, apc>>
    /\ UNCHANGED <<dim, sand, physicsVars, floodVars, gameVars>>

\* the heap is empty: astar returns None
AstarFail ==
    /\ apc = "search"
    /\ to_see = {}
    /\ result' = <<>>
    /\ apc' = "done"
    /\ UNCHANGED <<dim, sand, physicsVars, floodVars, gameVars, to_see, parents>>

NextPath ==
    \/ AstarStart
    \/ AstarStep
    \/ AstarFail

SpecPath == InitPath /\ [][NextPath]_vars

\* ====================================================== find_connected_sand
\* the successors closure of find_connected_sand
FloodSuccessors(grid, w, h, node) ==
    IF grid[node[1]][node[2]] # None
    THEN find_neighbors(grid, w, h, node[1], node[2], grid[node[1]][node[2]])
    ELSE <<>>

\* for s in successors(&n) { seen.insert(s); }: the insertion-ordered set
\* after the successors n .. Len(succ) were inserted
RECURSIVE InsertAll(_, _, _)
InsertAll(set, succ, n) ==
    IF n > Len(succ) THEN set
    ELSE IF \E m \in 1 .. Len(set) : set[m] = succ[n]
    THEN InsertAll(set, succ, n + 1)
    ELSE InsertAll(Append(set, succ[n]), succ, n + 1)

\* find_connected_sand(grid, x, y) is called: bfs_reach puts the start in seen
FloodStart(x, y) ==
    /\ bpc \in {"idle", "done"}
    /\ seen' = <<<<x, y>>>>
    /\ bi' = 0
    /\ connected' = <<>>
    /\ bpc' = "reach"
    /\ UNCHANGED <<dim, sand, physicsVars, pathVars, gameVars>>

FloodCall == \E x \in Cols(Width), y \in Rows(Height) : FloodStart(x, y)

\* one call of BfsReachable::next by collect() that yields a node
FloodNext ==
    /\ bpc = "reach"
    /\ bi < Len(seen)
    /\ seen' = InsertAll(seen, FloodSuccessors(sand, Width, Height, seen[bi + 1]), 1)
    /\ bi' = bi + 1
    /\ connected' = Append(connected, seen[bi + 1])
    /\ UNCHANGED <<dim, sand, physicsVars, pathVars, gameVars, bpc>>

\* next returns None: collect() returns the vector
FloodEnd ==
    /\ bpc = "reach"
    /\ bi >= Len(seen)
    /\ bpc' = "done"
    /\ UNCHANGED <<dim, sand, physicsVars, pathVars, gameVars, seen, bi, connected>>

NextFlood ==
    \/ FloodCall
    \/ FloodNext
    \/ FloodEnd

SpecFlood == InitPath /\ [][NextFlood]_vars

\* ===================================================================== Game
\* the board of Game::new, BOARD_SIZE / SAND_SIZE cells, scaled down
BoardW == 3

BoardH == 3

\* the number of blocks the game is followed for
MaxBlocks == 4

MOVE_REPEAT == 2

\* the order in which an EnumMap over Direction is visited
DirectionOrder == <<"Left", "Right", "Down">>

\* a block is one square of one sand cell: x, y and color
BlockAt(x, y, color) == [x |-> x, y |-> y, color |-> color]

\* Game::can_move
can_move(grid, w, h, block, direction) ==
    IF block = NoBlock THEN FALSE
    ELSE CASE direction = "Left" ->
                  block.x > 0 /\ grid[block.x - 1][block.y] = None
           [] direction = "Right" ->
                  block.x < w - 1 /\ grid[block.x + 1][block.y] = None
           [] direction = "Down" ->
                  block.y < h - 1 /\ grid[block.x][block.y + 1] = None

\* Game::add_sand_block
add_sand_block(grid, block) == [grid EXCEPT ![block.x][block.y] = block.color]

\* the fields move_block reads and writes, and whether its loop was left
Moving(grid, block, c) == [sand |-> grid, falling_block |-> block, combo |-> c, broke |-> FALSE]

\* one iteration of the for loop of move_block
MoveStep(g, w, h, direction) ==
    IF g.broke \/ g.falling_block = NoBlock THEN g
    ELSE CASE direction = "Left" ->
                  IF can_move(g.sand, w, h, g.falling_block, "Left")
                  THEN [g EXCEPT !.falling_block.x = @ - 1]
                  ELSE g
           [] direction = "Right" ->
                  IF can_move(g.sand, w, h, g.falling_block, "Right")
                  THEN [g EXCEPT !.falling_block.x = @ + 1]
                  ELSE g
           [] direction = "Down" ->
                  IF can_move(g.sand, w, h, g.falling_block, "Down")
                  THEN [g EXCEPT !.falling_block.y = @ + 1]
                  ELSE [sand |-> add_sand_block(g.sand, g.falling_block),
                        falling_block |-> NoBlock,
                        combo |-> 0,
                        broke |-> TRUE]

\* for _ in 0..MOVE_REPEAT
RECURSIVE MoveRepeat(_, _, _, _, _)
MoveRepeat(g, w, h, direction, n) ==
    IF n = 0 THEN g ELSE MoveRepeat(MoveStep(g, w, h, direction), w, h, direction, n - 1)

\* Game::move_block
move_block(g, w, h, direction) ==
    [MoveRepeat([g EXCEPT !.broke = FALSE], w, h, direction, MOVE_REPEAT) EXCEPT !.broke = FALSE]

\* self.control_updates.map(..): the directions in due are held and their
\* time has come
RECURSIVE ControlMoves(_, _, _, _, _)
ControlMoves(g, w, h, due, n) ==
    IF n > Len(DirectionOrder) THEN g
    ELSE ControlMoves(IF DirectionOrder[n] \in due
                      THEN move_block(g, w, h, DirectionOrder[n])
                      ELSE g,
                      w, h, due, n + 1)

\* while self.falling_block.is_some() { self.move_block(Direction::Down); }
RECURSIVE DropAll(_, _, _)
DropAll(g, w, h) ==
    IF g.falling_block = NoBlock THEN g ELSE DropAll(move_block(g, w, h, "Down"), w, h)

\* ClearPixels that ends after the first of the pixels
ClearPixels_First(grid, w, h, pixels) ==
    [x \in Cols(w) |-> [y \in Rows(h) |->
        IF pixels # <<>> /\ pixels[1] = <<x, y>> THEN None ELSE grid[x][y]]]

\* for (px, py) in affected_pixels { self.sand[[px, py]] = None; }
ClearPixels(grid, w, h, pixels) ==
    [x \in Cols(w) |-> [y \in Rows(h) |->
        IF \E n \in 1 .. Len(pixels) : pixels[n] = <<x, y>> THEN None ELSE grid[x][y]]]

\* Game::new: the empty board, no block, no animation
InitGame ==
    /\ dim = <<BoardW, BoardH>>
    /\ sand = [x \in Cols(BoardW) |-> [y \in Rows(BoardH) |-> None]]
    /\ before = sand
    /\ pc = "idle"
    /\ i = 0
    /\ rest = <<>>
    /\ requests = <<>>
    /\ changed = FALSE
    /\ k = 0
    /\ passes = 0
    /\ entered = <<>>
    /\ rngBools = 0
    /\ rngRanges = 0
    /\ logging = FALSE
    /\ draws = <<>>
    /\ apc = "idle"
    /\ to_see = {}
    /\ parents = <<>>
    /\ result = <<>>
    /\ bpc = "idle"
    /\ seen = <<>>
    /\ bi = 0
    /\ connected = <<>>
    /\ upc = "idle"
    /\ play_mode = "Playing"
    /\ animation = NoAnimation
    /\ falling_block = NoBlock
    /\ next_block \in 1 .. NumColors
    /\ control_updates = [d \in Directions |-> FALSE]
    /\ queue_drop = FALSE
    /\ score = 0
    /\ combo = 0
    /\ spawned = 0

\* Game::update is entered.  It returns at once, changing no field modelled
\* here, when the mode is not Playing or the animation is still running; past
\* that an animation that was set has run out and is completed
UpdateEnter ==
    /\ upc = "idle"
    /\ play_mode = "Playing"
    /\ LET finished == animation # NoAnimation
           combo1 == IF finished THEN combo + 1 ELSE combo
       IN  /\ combo' = combo1
           /\ score' = IF finished THEN score + Len(animation[1]) * combo1 ELSE score
           /\ sand' = IF finished
                      THEN ClearPixels(sand, Width, Height, animation[1])
                      ELSE sand
    /\ animation' = NoAnimation
    /\ upc' = "controls"
    /\ UNCHANGED <<dim, physicsVars, pathVars, floodVars,
                   play_mode, falling_block, next_block, control_updates, queue_drop,
                   spawned>>

\* Game::update from the held keys up to the test for the physics tick. due
\* are the held keys whose time has come, physics is whether elapsed_time has
\* reached next_physics_update
UpdateControls ==
    /\ upc = "controls"
    /\ \E physics \in BOOLEAN :
       \E due \in SUBSET {d \in Directions : control_updates[d]} :
             LET g1 == ControlMoves(Moving(sand, falling_block, combo),
                                    Width, Height, due, 1)
                 g2 == IF queue_drop THEN DropAll(g1, Width, Height) ELSE g1
             IN  /\ sand' = g2.sand
                 /\ falling_block' = g2.falling_block
                 /\ combo' = g2.combo
                 /\ queue_drop' = FALSE
                 /\ upc' = IF physics THEN "physics" ELSE "spanning"
    /\ UNCHANGED <<dim, physicsVars, pathVars, floodVars,
                   play_mode, animation, next_block, control_updates, score, spawned>>

\* self.run_sand_physics(): a step of run_rng_physics
GamePhysics ==
    /\ upc = "physics"
    /\ pc # "done"
    /\ Next

\* run_sand_physics has returned
PhysicsReturn ==
    /\ upc = "physics"
    /\ pc = "done"
    /\ upc' = "spanning"
    /\ UNCHANGED <<dim, sand, physicsVars, pathVars, floodVars,
                   play_mode, animation, falling_block, next_block, control_updates,
                   queue_drop, score, combo, spawned>>

\* find_spanning_group(&self.sand): a step of the search
GameSpanning ==
    /\ upc = "spanning"
    /\ apc # "done"
    /\ NextPath

\* find_spanning_group has returned: if let Some((x, y)) = ..
SpanningReturn ==
    /\ upc = "spanning"
    /\ apc = "done"
    /\ upc' = IF result # <<>> THEN "connected" ELSE "move"
    /\ UNCHANGED <<dim, sand, physicsVars, pathVars, floodVars,
                   play_mode, animation, falling_block, next_block, control_updates,
                   queue_drop, score, combo, spawned>>

\* GameFloodCall with the seed (0, 0)
GameFloodCall_TopLeft ==
    /\ upc = "connected"
    /\ bpc = "idle"
    /\ FloodStart(0, 0)

\* find_connected_sand(&self.sand, x, y) is called
GameFloodCall ==
    /\ upc = "connected"
    /\ bpc = "idle"
    /\ FloodStart(result[1], result[2])

\* a step of find_connected_sand
GameFlood ==
    /\ upc = "connected"
    /\ \/ FloodNext
       \/ FloodEnd

\* find_connected_sand has returned: self.animation = Some((0.0, RemoveLine {..}))
ConnectedReturn ==
    /\ upc = "connected"
    /\ bpc = "done"
    /\ animation' = <<connected>>
    /\ upc' = "move"
    /\ UNCHANGED <<dim, sand, physicsVars, pathVars, floodVars,
                   play_mode, falling_block, next_block, control_updates,
                   queue_drop, score, combo, spawned>>

\* the rest of Game::update: the block falls or the next block appears when
\* elapsed_time has reached next_move (due); color is what rng.generate()
\* returns for the block after it; the locals of the update are dropped
UpdateMove ==
    /\ upc = "move"
    /\ \E due \in BOOLEAN :
          IF ~due
          THEN UNCHANGED <<sand, falling_block, combo, next_block, play_mode, spawned>>
          ELSE IF falling_block # NoBlock
          THEN /\ LET g == IF ~control_updates["Down"]
                           THEN move_block(Moving(sand, falling_block, combo),
                                           Width, Height, "Down")
                           ELSE Moving(sand, falling_block, combo)
                  IN  /\ sand' = g.sand
                      /\ falling_block' = g.falling_block
                      /\ combo' = g.combo
               /\ UNCHANGED <<next_block, play_mode, spawned>>
          ELSE /\ spawned < MaxBlocks
               /\ spawned' = spawned + 1
               /\ falling_block' = BlockAt((Width \div 2) - (1 \div 2), 0, next_block)
               /\ \E color \in 1 .. NumColors : next_block' = color
               /\ play_mode' = IF can_move(sand, Width, Height, falling_block', "Down")
                               THEN play_mode
                               ELSE "GameOver"
               /\ UNCHANGED <<sand, combo>>
    /\ upc' = "idle"
    /\ pc' = "idle"
    /\ i' = 0
    /\ rest' = <<>>
    /\ requests' = <<>>
    /\ changed' = FALSE
    /\ k' = 0
    /\ passes' = 0
    /\ entered' = <<>>
    /\ rngBools' = 0
    /\ rngRanges' = 0
    /\ before' = sand'
    /\ draws' = <<>>
    /\ apc' = "idle"
    /\ to_see' = {}
    /\ parents' = <<>>
    /\ result' = <<>>
    /\ bpc' = "idle"
    /\ seen' = <<>>
    /\ bi' = 0
    /\ connected' = <<>>
    /\ UNCHANGED <<dim, logging, animation, control_updates, queue_drop, score>>

NextGame ==
    \/ UpdateEnter
    \/ UpdateControls
    \/ GamePhysics
    \/ PhysicsReturn
    \/ GameSpanning
    \/ SpanningReturn
    \/ GameFloodCall
    \/ GameFlood
    \/ ConnectedReturn
    \/ UpdateMove

SpecGame == InitGame /\ [][NextGame]_vars

\* ------------------------------------------------------------- handle_event
\* toggle_pause with Self::GameOver => Self::Playing
toggle_pause_Resume(mode) ==
    CASE mode = "Playing" -> "Paused"
      [] mode = "Paused" -> "Playing"
      [] mode = "GameOver" -> "Playing"

\* PlayMode::toggle_pause
toggle_pause(mode) ==
    CASE mode = "Playing" -> "Paused"
      [] mode = "Paused" -> "Playing"
      [] mode = "GameOver" -> "GameOver"

\* the locals of update, which no event touches
updateLocals == <<physicsVars, pathVars, floodVars, upc>>

\* handle_event with the press of Key::Left, Key::Right or Key::Down; events
\* are handled between the calls of update
PressKey ==
    /\ upc = "idle"
    /\ \E direction \in Directions :
          /\ LET g == IF play_mode = "Playing"
                      THEN move_block(Moving(sand, falling_block, combo),
                                      Width, Height, direction)
                      ELSE Moving(sand, falling_block, combo)
             IN  /\ sand' = g.sand
                 /\ falling_block' = g.falling_block
                 /\ combo' = g.combo
          /\ control_updates' = [control_updates EXCEPT ![direction] = TRUE]
    /\ UNCHANGED <<dim, updateLocals, play_mode, animation, next_block, queue_drop,
                   score, spawned>>

\* handle_event with the release of Key::Left, Key::Right or Key::Down
ReleaseKey ==
    /\ upc = "idle"
    /\ \E direction \in Directions :
          control_updates' = [control_updates EXCEPT ![direction] = FALSE]
    /\ UNCHANGED <<dim, sand, updateLocals, play_mode, animation, falling_block,
                   next_block, queue_drop, score, combo, spawned>>

\* handle_event with the release of Key::Space
ReleaseSpace ==
    /\ upc = "idle"
    /\ queue_drop' = TRUE
    /\ UNCHANGED <<dim, sand, updateLocals, play_mode, animation, falling_block,
                   next_block, control_updates, score, combo, spawned>>

\* handle_event with the release of Key::P
ReleaseP ==
    /\ upc = "idle"
    /\ play_mode' = toggle_pause(play_mode)
    /\ UNCHANGED <<dim, sand, updateLocals, animation, falling_block, next_block,
                   control_updates, queue_drop, score, combo, spawned>>

\* handle_event with the release of Key::R: Game::reset; color is what
\* rng.generate() returns for the next block
ReleaseR ==
    /\ upc = "idle"
    /\ sand' = [x \in Cols(Width) |-> [y \in Rows(Height) |-> None]]
    /\ before' = sand'
    /\ animation' = NoAnimation
    /\ play_mode' = "Playing"
    /\ queue_drop' = FALSE
    /\ falling_block' = NoBlock
    /\ \E color \in 1 .. NumColors : next_block' = color
    /\ score' = 0
    /\ combo' = 1
    /\ UNCHANGED <<dim, pc, i, rest, requests, changed, k, passes, entered, rngBools,
                   rngRanges, logging, draws, pathVars, floodVars, upc,
                   control_updates, spawned>>

NextEvents ==
    \/ NextGame
    \/ PressKey
    \/ ReleaseKey
    \/ ReleaseSpace
    \/ ReleaseP
    \/ ReleaseR

\* update calls and input events in any order
SpecEvents == InitGame /\ [][NextEvents]_vars

\* ================================================================== claims
\* the positions of the current row pair at which requests exist
InLine == pc \in {"decide", "loop", "neighbors", "converging", "apply"}

\* requests holds initial decisions only: no pass of the loop has run
InitialDecisions == pc = "decide" \/ (pc = "loop" /\ passes = 0)

\* entry e (counted from 0) describes a grain of the source row
SourceGrain(e) == is_some(sand, EntryCol(e, Width), i - 1)

\* occupancy of the destination-row cells x-1, x, x+1, off-board occupied
BelowLeft(x) == x = 0 \/ is_some(sand, x - 1, i)

Below(x) == is_some(sand, x, i)

BelowRight(x) == x = Width - 1 \/ is_some(sand, x + 1, i)

\* the decision table of the specification
TableOutcomes(l, d, r) ==
    IF d
    THEN IF l /\ r THEN {"None"}
         ELSE IF ~l /\ r THEN {"Left"}
         ELSE IF l /\ ~r THEN {"Right"}
         ELSE {"Left", "Right"}
    ELSE {"Down"} \cup (IF l THEN {} ELSE {"Left"}) \cup (IF r THEN {} ELSE {"Right"})

\* C1: when a tick has completed, the number of occupied cells equals the
\* number at its entry.
GrainConservation ==
    pc = "done" => CountGrains(sand, Width, Height) = CountGrains(before, Width, Height)

\* C2: in the direction vector returned by run_physics_line no two entries
\* resolve to the same destination column.
NoOverlap ==
    pc = "apply" =>
        \A a, b \in 0 .. (Len(requests) - 1) :
            (a < b /\ requests[a + 1].d # "None" /\ requests[b + 1].d # "None")
                => DestCol(a, requests[a + 1].d) # DestCol(b, requests[b + 1].d)

\* a returned vector in which two grains move although a conflict was resolved
NoOverlapWitness ==
    /\ pc = "apply"
    /\ passes >= 2
    /\ \E a, b \in 0 .. (Len(requests) - 1) :
          a < b /\ requests[a + 1].d # "None" /\ requests[b + 1].d # "None"

\* C3: the primary direction first requested for a grain at column x is one
\* the decision table gives for the occupancy of the destination-row cells
\* x-1, x, x+1 (off-board occupied).
PerCellDecisionRule ==
    InitialDecisions =>
        \A e \in 0 .. (Len(requests) - 1) :
            SourceGrain(e) =>
                requests[e + 1].d \in TableOutcomes(BelowLeft(EntryCol(e, Width)),
                                                    Below(EntryCol(e, Width)),
                                                    BelowRight(EntryCol(e, Width)))

\* C4: the first decision for a grain is "no move" if and only if the three
\* destination-row cells below it are all occupied (off-board occupied).
DecisionTotality ==
    InitialDecisions =>
        \A e \in 0 .. (Len(requests) - 1) :
            SourceGrain(e) =>
                (requests[e + 1].d = "None" <=>
                    (/\ BelowLeft(EntryCol(e, Width))
                     /\ Below(EntryCol(e, Width))
                     /\ BelowRight(EntryCol(e, Width))))

\* C5: neither the initial decision nor the direction left by conflict
\* resolution is Down when the cell directly below the grain is occupied.
DownBlocked ==
    InLine =>
        \A e \in 0 .. (Len(requests) - 1) :
            requests[e + 1].d = "Down" => ~Below(EntryCol(e, Width))

\* C6: at every point of a tick each grain on the board is where it was at the
\* entry of the tick or one row below that and at most one column aside, no
\* grain is on the board twice, and the rows above the pair being processed
\* are still untouched (the pairs are taken from the bottom pair upward).
\* (the grid, i and rest change only where pc becomes "line" or "done")
OneCellPerTick ==
    pc \in {"line", "done"} =>
        /\ \A c \in Cells(Width, Height) :
              is_some(sand, c[1], c[2]) =>
                  \/ before[c[1]][c[2]] = sand[c[1]][c[2]]
                  \/ /\ c[2] >= 1
                     /\ \E x \in {c[1] - 1, c[1], c[1] + 1} \cap Cols(Width) :
                           before[x][c[2] - 1] = sand[c[1]][c[2]]
        /\ Cardinality({sand[c[1]][c[2]] : c \in Cells(Width, Height)} \ {None})
              = CountGrains(sand, Width, Height)
        /\ pc = "line" =>
              \A c \in Cells(Width, Height) :
                  c[2] < i => sand[c[1]][c[2]] = before[c[1]][c[2]]
        /\ pc = "done" => rest = <<>>

\* a completed tick in which a grain with two free cells below it fell one row
OneCellPerTickWitness ==
    /\ pc = "done"
    /\ Height = 3
    /\ \E x \in Cols(Width) :
          /\ is_some(before, x, 0)
          /\ ~is_some(before, x, 1)
          /\ ~is_some(before, x, 2)
          /\ sand[x][1] = before[x][0]
          /\ ~is_some(sand, x, 2)

\* C7: the entry of column 0 never holds Left and the entry of column W-1
\* never holds Right, as primary or as fallback, and no resolved move has a
\* destination column outside 0..W-1.
NoHorizontalExit ==
    /\ \A e \in 0 .. (Len(requests) - 1) :
          /\ EntryCol(e, Width) = 0 =>
                (requests[e + 1].d # "Left" /\ requests[e + 1].next # "Left")
          /\ EntryCol(e, Width) = Width - 1 =>
                (requests[e + 1].d # "Right" /\ requests[e + 1].next # "Right")
    /\ pc = "apply" => ~MoveOutOfRange(Resolved(requests), Width)

\* a returned vector in which the grains of both edge columns move diagonally
NoHorizontalExitWitness ==
    /\ pc = "apply"
    /\ Width >= 3
    /\ requests[1].d = "Right"
    /\ requests[Width].d = "Left"

\* C8 as stated: a single grain at (2,0) of a 5-wide board ends the tick at
\* (2,1) and the tick draws nothing from the generator.
SingleGrainDeterministic ==
    (/\ pc = "done"
     /\ Width = 5
     /\ Height >= 2
     /\ CountGrains(before, Width, Height) = 1
     /\ is_some(before, 2, 0))
        => (/\ sand[2][1] = before[2][0]
            /\ rngBools = 0
            /\ rngRanges = 0)

\* C8 amended: the grain ends the tick one row down at (1,1), (2,1) or (3,1),
\* it is the only grain, and the tick made exactly one generate_range call
\* and no generate::<bool>() call.
SingleGrainFalls ==
    (/\ pc = "done"
     /\ Width = 5
     /\ Height >= 2
     /\ CountGrains(before, Width, Height) = 1
     /\ is_some(before, 2, 0))
        => (/\ \E x \in {1, 2, 3} : sand[x][1] = before[2][0]
            /\ CountGrains(sand, Width, Height) = 1
            /\ rngBools = 0
            /\ rngRanges = 1)

\* the scenario's tick completed with the grain at (2,1)
SingleGrainFallsWitness ==
    /\ pc = "done"
    /\ Width = 5
    /\ Height >= 2
    /\ CountGrains(before, Width, Height) = 1
    /\ is_some(before, 2, 0)
    /\ sand[2][1] = before[2][0]

\* the scenario of C9 on a board of two rows: the grain at (2,0) is the only
\* one of row 0, (2,1) is occupied, (1,1) and (3,1) are empty
BlockedGrainScenario ==
    /\ Width = 5
    /\ Height = 2
    /\ \A x \in Cols(Width) : is_some(before, x, 0) <=> x = 2
    /\ is_some(before, 2, 1)
    /\ ~is_some(before, 1, 1)
    /\ ~is_some(before, 3, 1)

\* C9: the tick moves the grain to (1,1) or (3,1), leaves (2,0) empty and
\* (2,1) as it was, and draws exactly one bool and nothing else.
BlockedGrainGoesAside ==
    (pc = "done" /\ BlockedGrainScenario)
        => (/\ sand[1][1] = before[2][0] \/ sand[3][1] = before[2][0]
            /\ ~is_some(sand, 2, 0)
            /\ sand[2][1] = before[2][1]
            /\ rngBools = 1
            /\ rngRanges = 0)

\* the scenario's tick completed with the grain at (1,1)
BlockedGrainGoesAsideWitness ==
    /\ pc = "done"
    /\ BlockedGrainScenario
    /\ sand[1][1] = before[2][0]

\* the other outcome: the grain at (3,1)
BlockedGrainGoesRightReached ==
    /\ pc = "done"
    /\ BlockedGrainScenario
    /\ sand[3][1] = before[2][0]

\* the cells c and e are 4-neighbours and hold the same color
SameColorNeighbors(grid, c, e) ==
    /\ grid[c[1]][c[2]] # None
    /\ grid[c[1]][c[2]] = grid[e[1]][e[2]]
    /\ \/ (c[1] = e[1] /\ (c[2] - e[2] = 1 \/ e[2] - c[2] = 1))
       \/ (c[2] = e[2] /\ (c[1] - e[1] = 1 \/ e[1] - c[1] = 1))

\* the least set of cells that contains region and is closed under
\* SameColorNeighbors
RECURSIVE Closure(_, _, _, _)
Closure(grid, w, h, region) ==
    LET more == {e \in Cells(w, h) \ region :
                    \E c \in region : SameColorNeighbors(grid, c, e)}
    IN  IF more = {} THEN region ELSE Closure(grid, w, h, region \cup more)

\* the same-colored 4-connected region of an occupied cell
RegionOf(grid, w, h, seed) == Closure(grid, w, h, {seed})

\* some same-colored 4-connected region has a cell in column 0 and one in
\* column w-1
HasSpanningRegion(grid, w, h) ==
    \E y0 \in Rows(h) :
        /\ grid[0][y0] # None
        /\ \E y1 \in Rows(h) : <<w - 1, y1>> \in RegionOf(grid, w, h, <<0, y0>>)

\* C10: find_spanning_group returns a cell if and only if some same-colored
\* 4-connected region has a cell in column 0 and a cell in column W-1; it
\* returns none on an empty grid and on a full single row whose colors differ.
SpanningIffRegion ==
    apc = "done" =>
        /\ (result # <<>>) <=> HasSpanningRegion(sand, Width, Height)
        /\ CountGrains(sand, Width, Height) = 0 => result = <<>>
        /\ (/\ Height = 1
            /\ \A x \in Cols(Width) : sand[x][0] # None
            /\ \E x \in Cols(Width) : sand[x][0] # sand[0][0]) => result = <<>>

\* a cell was returned on a grid of two rows neither of which is of one color:
\* the spanning region bends
SpanningIffRegionWitness ==
    /\ apc = "done"
    /\ result # <<>>
    /\ Width = 3
    /\ Height = 2
    /\ \A y \in Rows(Height) : \E x \in Cols(Width) : sand[x][y] # sand[0][y]

\* none was returned on a full row of 3 or more cells whose colors differ
SpanningNoneOnMixedRow ==
    /\ apc = "done"
    /\ result = <<>>
    /\ Height = 1
    /\ Width >= 3
    /\ \A x \in Cols(Width) : sand[x][0] # None
    /\ sand[0][0] = sand[Width - 1][0]

\* the occupied cells of the grid are exactly the cells of row y, of one color
SingleFullRow(grid, w, h, y) ==
    /\ \A c \in Cells(w, h) : is_some(grid, c[1], c[2]) <=> c[2] = y
    /\ \A x \in Cols(w) : grid[x][y] = grid[0][y]

\* C11: a cell (x, y) returned by find_spanning_group has x = 0, is occupied,
\* and its same-colored 4-connected region has a cell in column W-1; on a
\* grid whose only grains are one full row of one color at height y the
\* result is (0, y).
SpanningEntryCell ==
    apc = "done" =>
        /\ result # <<>> =>
              /\ result[1] = 0
              /\ result[2] \in Rows(Height)
              /\ is_some(sand, 0, result[2])
              /\ \E y1 \in Rows(Height) :
                    <<Width - 1, y1>> \in RegionOf(sand, Width, Height, result)
        /\ \A y \in Rows(Height) :
              SingleFullRow(sand, Width, Height, y) => result = <<0, y>>

\* the entry cell of a bending region was returned while another cell of
\* column 0 is occupied and its region does not span
SpanningEntryCellWitness ==
    /\ apc = "done"
    /\ result # <<>>
    /\ Width = 3
    /\ Height >= 2
    /\ \E y \in Rows(Height) :
          /\ y # result[2]
          /\ is_some(sand, 0, y)
          /\ <<0, y>> \notin RegionOf(sand, Width, Height, result)
    /\ ~ \E y \in Rows(Height) : \A x \in Cols(Width) : sand[x][y] = sand[0][result[2]]

\* the full row of one color in the middle of a grid of 3 rows gave (0, 1)
SpanningSingleRowReached ==
    /\ apc = "done"
    /\ Height = 3
    /\ SingleFullRow(sand, Width, Height, 1)
    /\ result = <<0, 1>>

\* the seed of the last call of find_connected_sand
Seed == seen[1]

\* the set of the coordinates in the returned vector
ConnectedSet == {connected[n] : n \in 1 .. Len(connected)}

\* C12: for an occupied seed the cells returned by find_connected_sand are
\* exactly the same-colored 4-connected region of the seed: every same-colored
\* 4-neighbour of a returned cell is returned, every returned cell holds the
\* color of the seed, no cell outside the region is returned, and a seed
\* without same-colored neighbours gives the vector of the seed alone.
FloodIsRegion ==
    (bpc = "done" /\ is_some(sand, Seed[1], Seed[2])) =>
        /\ ConnectedSet = RegionOf(sand, Width, Height, Seed)
        /\ \A c \in ConnectedSet : \A e \in Cells(Width, Height) :
              SameColorNeighbors(sand, c, e) => e \in ConnectedSet
        /\ \A c \in ConnectedSet : sand[c[1]][c[2]] = sand[Seed[1]][Seed[2]]
        /\ (\A e \in Cells(Width, Height) : ~SameColorNeighbors(sand, Seed, e))
              => connected = <<Seed>>

\* a region over both rows was returned while the grid holds a cell of the
\* other color next to the region and a cell of the seed's color outside it
FloodIsRegionWitness ==
    /\ bpc = "done"
    /\ Height = 2
    /\ is_some(sand, Seed[1], Seed[2])
    /\ \E c, e \in ConnectedSet : c[1] # e[1] /\ c[2] # e[2]
    /\ \E c \in ConnectedSet : \E e \in Cells(Width, Height) \ ConnectedSet :
          /\ is_some(sand, e[1], e[2])
          /\ sand[e[1]][e[2]] # sand[c[1]][c[2]]
          /\ (c[1] = e[1] \/ c[2] = e[2])
    /\ \E e \in Cells(Width, Height) \ ConnectedSet :
          sand[e[1]][e[2]] = sand[Seed[1]][Seed[2]]

\* two cells of one color without a shared neighbour: the seed alone
FloodSingletonReached ==
    /\ bpc = "done"
    /\ is_some(sand, Seed[1], Seed[2])
    /\ connected = <<Seed>>
    /\ \E e \in Cells(Width, Height) \ {Seed} :
          sand[e[1]][e[2]] = sand[Seed[1]][Seed[2]]

\* the cells c and e are 4-neighbours
Adjacent(c, e) ==
    \/ (c[1] = e[1] /\ (c[2] - e[2] = 1 \/ e[2] - c[2] = 1))
    \/ (c[2] = e[2] /\ (c[1] - e[1] = 1 \/ e[1] - c[1] = 1))

\* the positions of the vector that hold a 4-neighbour of its n-th element
NeighborPositions(list, n) == {m \in 1 .. Len(list) : Adjacent(list[m], list[n])}

\* the position of the first element of the vector that is a 4-neighbour of
\* its n-th element: the element whose expansion discovers it
Discoverer(list, n) ==
    CHOOSE m \in NeighborPositions(list, n) :
        \A o \in NeighborPositions(list, n) : m <= o

\* the rank of the cell c among the neighbours of p: left, up, right, down
DirRank(p, c) ==
    IF c = <<p[1] - 1, p[2]>> THEN 0
    ELSE IF c = <<p[1], p[2] - 1>> THEN 1
    ELSE IF c = <<p[1] + 1, p[2]>> THEN 2
    ELSE 3

\* C13: the returned vector starts with the seed, holds no coordinate twice,
\* and is in breadth-first order with neighbours taken left, up, right, down:
\* every later element is discovered by an earlier one, and elements are
\* ordered by their discoverer's position and then by their rank among its
\* neighbours; on the 5-wide, 1-tall board of one color the call with seed
\* (0,0) completes and returns (0,0), (1,0), (2,0), (3,0), (4,0).
FloodOrder ==
    bpc = "done" =>
        /\ Len(connected) >= 1
        /\ connected[1] = Seed
        /\ \A n, m \in 1 .. Len(connected) : n # m => connected[n] # connected[m]
        /\ \A n \in 2 .. Len(connected) :
              /\ NeighborPositions(connected, n) # {}
              /\ Discoverer(connected, n) < n
        /\ \A n, m \in 2 .. Len(connected) :
              n < m =>
                  \/ Discoverer(connected, n) < Discoverer(connected, m)
                  \/ /\ Discoverer(connected, n) = Discoverer(connected, m)
                     /\ DirRank(connected[Discoverer(connected, n)], connected[n])
                            < DirRank(connected[Discoverer(connected, m)], connected[m])
        /\ (/\ Width = 5
            /\ Height = 1
            /\ \A x \in Cols(Width) : is_some(sand, x, 0) /\ sand[x][0] = sand[0][0]
            /\ Seed = <<0, 0>>)
              => connected = <<<<0, 0>>, <<1, 0>>, <<2, 0>>, <<3, 0>>, <<4, 0>>>>

\* a vector of 4 or more cells was returned whose seed has a same-colored
\* cell above it and one to its right
FloodOrderWitness ==
    /\ bpc = "done"
    /\ Len(connected) >= 4
    /\ <<Seed[1], Seed[2] - 1>> \in ConnectedSet
    /\ <<Seed[1] + 1, Seed[2]>> \in ConnectedSet

\* the scenario: the 5 cells of the 5-wide, 1-tall board from the seed (0,0)
FloodFiveRowReached ==
    /\ bpc = "done"
    /\ Width = 5
    /\ Height = 1
    /\ Seed = <<0, 0>>
    /\ Len(connected) = 5

\* the numbers the generator returned, in the order of the calls
Results(log) == [n \in 1 .. Len(log) |-> log[n].v]

\* the place a precedes the place b in the order of consumption: pairs from
\* the bottom pair upward, in a pair the decisions by entry, then the passes
\* of the loop by pass and by pair
SiteBefore(a, b) ==
    \/ a[1] > b[1]
    \/ a[1] = b[1] /\ a[2] < b[2]
    \/ a[1] = b[1] /\ a[2] = b[2] /\ a[3] < b[3]
    \/ a[1] = b[1] /\ a[2] = b[2] /\ a[3] = b[3] /\ a[4] < b[4]

\* the step leaves no choice but the result of its draw: no other step from
\* the same state records the same results and ends in another state
StepDetermined ==
    \A r \in {Results(draws')} : \A t \in {vars'} :
        ~ ENABLED (Next /\ Results(draws') = r /\ vars' # t)

\* the draws are consumed in the order of SiteBefore, and each call of the
\* generator is one recorded result
DrawOrder ==
    logging =>
        /\ \A n, m \in 1 .. Len(draws) : n < m => SiteBefore(draws[n].site, draws[m].site)
        /\ Len(draws) = rngBools + rngRanges

\* C14: a tick is determined by its grid and the results of its draws: every
\* step from a state is determined by the result the generator returns in it,
\* so two ticks from one grid with the same results pass through the same
\* states, end in the same grid and make the same number of draws; the draws
\* are made pair by pair from the bottom, in a pair first for the decisions
\* from left to right, then in the passes of the conflict loop.
DeterministicGivenDraws == [][StepDetermined]_vars /\ []DrawOrder

\* a completed tick in which two entries drew for their decisions and the
\* conflict loop then flipped a coin between them
DeterministicGivenDrawsWitness ==
    /\ logging
    /\ pc = "done"
    /\ Len(draws) = 3
    /\ draws[1].site[2] = 0
    /\ draws[2].site[2] = 0
    /\ draws[3].site[2] = 1
    /\ sand # before

\* a completed tick over 2 row pairs with a draw for a decision in each
DrawsInBothPairsReached ==
    /\ logging
    /\ pc = "done"
    /\ Len(draws) >= 2
    /\ draws[1].site[1] = 2
    /\ draws[Len(draws)].site[1] = 1

\* where the update stands with its queries: the physics tick lies before
\* both, the flood fill is running or has run only after the search returned
\* a cell, and its seed is that cell
QueryOrder ==
    /\ upc = "physics" => (apc = "idle" /\ bpc = "idle")
    /\ apc # "idle" => (upc \in {"spanning", "connected", "move"} /\ pc \in {"idle", "done"})
    /\ bpc # "idle" =>
          /\ upc \in {"connected", "move"}
          /\ apc = "done"
          /\ result # <<>>
          /\ seen[1] = result

\* from the call of find_spanning_group to the return of find_connected_sand
\* the grid is not written, and the physics tick takes its steps only where
\* the update runs it
QueryGridFixed ==
    /\ upc \in {"spanning", "connected"} => sand' = sand
    /\ pc' # pc => (upc = "physics" \/ upc' = "idle")

\* C15: in every update find_connected_sand runs only after
\* find_spanning_group returned a cell in that update, its seed is that cell,
\* the grid is the one the search read, and both queries come after the
\* physics tick of the update, if one ran, has completed.
QueriesInOrder == []QueryOrder /\ [][QueryGridFixed]_vars

\* find_connected_sand has returned 3 or more cells in an update whose
\* physics tick moved a grain
QueriesInOrderWitness ==
    /\ upc = "connected"
    /\ bpc = "done"
    /\ pc = "done"
    /\ sand # before
    /\ Len(connected) >= 3

\* the request the claims give a vetoed requester: its secondary direction
\* without a secondary of its own, or no move
Secondary(req) == IF req.next = "None" THEN NoRequest ELSE [d |-> req.next, next |-> "None"]

\* the vector reqs with the entry at position n replaced by its Secondary
Vetoed(reqs, n) == [m \in 1 .. Len(reqs) |-> IF m = n THEN Secondary(reqs[m]) ELSE reqs[m]]

\* the step examines the neighbouring entries k-1 and k (counted from 0)
NeighborsPair == pc = "neighbors" /\ k < Len(requests)

\* what the step over the neighbouring pair does: Right beside Down and Down
\* beside Left veto the diagonal requester alone, any other pair changes
\* nothing
AdjacentStep ==
    NeighborsPair =>
        IF requests[k].d = "Right" /\ requests[k + 1].d = "Down"
        THEN requests' = Vetoed(requests, k) /\ changed'
        ELSE IF requests[k].d = "Down" /\ requests[k + 1].d = "Left"
        THEN requests' = Vetoed(requests, k + 1) /\ changed'
        ELSE requests' = requests /\ changed' = changed

\* no step of the conflict resolution writes an entry that requests Down
DownKept ==
    (pc \in {"loop", "neighbors", "converging"}) =>
        \A e \in 1 .. Len(requests) :
            requests[e].d = "Down" => requests'[e] = requests[e]

\* C16: when the entry of cell x requests Right and that of cell x+1 Down,
\* or x Down and x+1 Left, the step keeps the Down request and replaces the
\* diagonal requester by its secondary direction without a further fallback,
\* or by no move if it has none; no step of the resolution alters a Down
\* request.
AdjacentRule == [][AdjacentStep /\ DownKept]_vars

\* the pair of column 0 and column 1 was examined and matched, and both
\* entries now request Down: the diagonal requester fell back to Down
AdjacentRuleWitness ==
    /\ pc = "neighbors"
    /\ k = 2
    /\ changed
    /\ requests[1] = [d |-> "Down", next |-> "None"]
    /\ requests[2] = [d |-> "Down", next |-> "None"]

\* the last pair was examined and matched, and the diagonal requester, which
\* had no secondary, is left without a move beside a Down request
AdjacentCancelReached ==
    /\ pc = "neighbors"
    /\ k = Len(requests)
    /\ changed
    /\ SourceGrain(k - 1)
    /\ requests[k] = NoRequest
    /\ requests[k - 1].d = "Down"
    /\ SandUnder(sand, Width, i, k - 1) = <<FALSE, TRUE, TRUE>>

\* the step examines the entries k-2 and k (counted from 0), which request
\* Right and Left into the column between them
ConvergingPair ==
    /\ pc = "converging"
    /\ k < Len(requests)
    /\ requests[k - 1].d = "Right"
    /\ requests[k + 1].d = "Left"

\* what the step over such a pair does: one bit is drawn and one of the two
\* entries, and no other, is replaced by its secondary
DistanceTwoStep ==
    ConvergingPair =>
        /\ rngBools' = rngBools + 1
        /\ changed'
        /\ \/ requests' = Vetoed(requests, k - 1)
           \/ requests' = Vetoed(requests, k + 1)
        /\ Vetoed(requests, k - 1) # Vetoed(requests, k + 1)

\* both outcomes of the bit can happen
EitherChoice ==
    ConvergingPair =>
        /\ ENABLED (Next /\ requests' = Vetoed(requests, k - 1))
        /\ ENABLED (Next /\ requests' = Vetoed(requests, k + 1))

\* C17: when the entry of cell x requests Right and that of cell x+2 Left,
\* the step draws one random bit, either value of which can come, and exactly
\* one of the two entries falls back to its secondary direction or is
\* cancelled while the other, like every other entry, is left unchanged.
DistanceTwoRule == [][DistanceTwoStep]_vars /\ []EitherChoice

\* columns 1 and 3 of a row pair of width 4 hold the only grains, the pair
\* was examined and one bit drawn: the right-hand entry lost and fell back to
\* Down while the left-hand one still requests Right
DistanceTwoRuleWitness ==
    /\ pc = "converging"
    /\ k = 4
    /\ Len(requests) = 4
    /\ changed
    /\ rngBools = 1
    /\ SourceGrain(1) /\ SourceGrain(3)
    /\ ~ SourceGrain(0) /\ ~ SourceGrain(2)
    /\ requests[2] = Req("Right", "Down")
    /\ requests[4] = Req("Down", "None")

\* the same with requests that had no secondary: the left-hand entry lost
\* and is cancelled
DistanceTwoCancelReached ==
    /\ pc = "converging"
    /\ k = 4
    /\ Len(requests) = 4
    /\ changed
    /\ rngBools = 1
    /\ SourceGrain(1) /\ SourceGrain(3)
    /\ ~ SourceGrain(0) /\ ~ SourceGrain(2)
    /\ requests[2] = NoRequest
    /\ requests[4] = Req("Left", "None")

\* control is inside the while loop of run_physics_line
InLoop == pc \in {"loop", "neighbors", "converging"}

\* one of the three patterns the loop looks for is among the requests
ConflictPattern(reqs) ==
    \/ \E e \in 1 .. (Len(reqs) - 1) :
          \/ reqs[e].d = "Right" /\ reqs[e + 1].d = "Down"
          \/ reqs[e].d = "Down" /\ reqs[e + 1].d = "Left"
    \/ \E e \in 1 .. (Len(reqs) - 2) :
          reqs[e].d = "Right" /\ reqs[e + 2].d = "Left"

\* the loop has been left: the requests are about to be returned
LoopExit == pc = "apply"

NoPatternAtExit == LoopExit => ~ ConflictPattern(requests)

\* C18: the conflict-resolution loop, once entered, is left again whatever
\* the row pair and the random outcomes, and when it is left none of the
\* patterns Right/Down adjacent, Down/Left adjacent, Right/Left two apart is
\* among the requests.
LoopTerminatesClean == (InLoop ~> LoopExit) /\ []NoPatternAtExit

\* the loop was left after three executions of its body, two of which
\* changed a request
LoopTerminatesCleanWitness ==
    /\ LoopExit
    /\ passes >= 3
    /\ ~ ConflictPattern(requests)

\* the pairs of entries of reqs that request a move into the same column of
\* the destination row
ConflictPairs(reqs) ==
    {c \in (1 .. Len(reqs)) \X (1 .. Len(reqs)) :
        /\ c[1] < c[2]
        /\ reqs[c[1]].d # "None"
        /\ reqs[c[2]].d # "None"
        /\ DestCol(c[1], reqs[c[1]].d) = DestCol(c[2], reqs[c[2]].d)}

\* the number of unresolved conflicts
ConflictCount(reqs) == Cardinality(ConflictPairs(reqs))

\* the number of directions, primary and secondary, entry e of reqs holds
Held(reqs, e) ==
    (IF reqs[e].d = "None" THEN 0 ELSE 1) + (IF reqs[e].next = "None" THEN 0 ELSE 1)

RECURSIVE DirectionsHeld(_, _)
DirectionsHeld(reqs, e) ==
    IF e > Len(reqs) THEN 0 ELSE Held(reqs, e) + DirectionsHeld(reqs, e + 1)

\* an execution of the body has ended and it changed a request
PassChanged == pc = "loop" /\ passes > 0 /\ changed

\* a step of the loop rewrites an entry
FallbackStep == InLoop /\ requests' # requests

\* the pass ended with fewer conflicts than it began with
PassReducesConflicts == PassChanged => ConflictCount(requests) < ConflictCount(entered)

\* the fallback leaves fewer conflicts than there were
FallbackReducesConflicts ==
    FallbackStep => ConflictCount(requests') < ConflictCount(requests)

\* C19 as stated: every pass of the loop that changes a request ends with
\* strictly fewer unresolved conflicts than it began with, and every
\* fallback leaves strictly fewer conflicts than before it.
ConflictsStrictlyReduced == []PassReducesConflicts /\ [][FallbackReducesConflicts]_vars

PassKeepsConflicts == PassChanged => ConflictCount(requests) <= ConflictCount(entered)

PassReducesDirections ==
    PassChanged => DirectionsHeld(requests, 1) < DirectionsHeld(entered, 1)

FallbackStepBound ==
    FallbackStep =>
        /\ ConflictCount(requests') <= ConflictCount(requests)
        /\ DirectionsHeld(requests', 1) = DirectionsHeld(requests, 1) - 1

\* C19 amended: every pass of the loop that changes a request ends with no
\* more unresolved conflicts than it began with and with strictly fewer
\* directions, primary and secondary, held by the requests; a fallback
\* removes exactly one held direction and never leaves the conflict count
\* higher, though it can leave it equal.
ConflictsNeverRaised ==
    /\ [](PassKeepsConflicts /\ PassReducesDirections)
    /\ [][FallbackStepBound]_vars

\* a pass that changed a request has ended with as many conflicts as it began
\* with: the loser of a distance-2 conflict fell back into a new conflict
ConflictsNeverRaisedWitness ==
    /\ PassChanged
    /\ ConflictCount(entered) > 0
    /\ ConflictCount(requests) = ConflictCount(entered)
    /\ DirectionsHeld(requests, 1) < DirectionsHeld(entered, 1)

\* the same in a row pair where column 0 holds no grain and the grain of
\* column W-1, if any, has none beside it: widths from 6 on
ConflictKeptInsideReached ==
    /\ ConflictsNeverRaisedWitness
    /\ ~ SourceGrain(0)
    /\ ~ (SourceGrain(Len(requests) - 1) /\ SourceGrain(Len(requests) - 2))

\* C20: for a row pair of width W the body of the conflict-resolution loop
\* is executed at most W times, whatever the occupancy and the random
\* outcomes.
PassesBound == InLine => passes <= Width

\* the loop was left after three executions of its body on a row pair of
\* width 4
PassesBoundWitness ==
    /\ LoopExit
    /\ Width = 4
    /\ passes = 3

\* the column a grain of column x is meant to reach by direction m
Target(x, m) == CASE m = "Left" -> x - 1 [] m = "Right" -> x + 1 [] m = "Down" -> x

\* the row pair (i - 1, i) is processed and the program does not abort
ApplyTaken == pc = "apply" /\ pc' # "panic"

\* cell c is the source or the destination of a resolved move of the pair
Touched(c, dirs) ==
    \E x \in Cols(Width) :
        /\ dirs[x + 1] # "None"
        /\ \/ c = <<x, i - 1>>
           \/ c = <<Target(x, dirs[x + 1]), i>>

\* what the processing of the pair does to the grid
ApplyStep ==
    ApplyTaken =>
        LET dirs == Resolved(requests)
        IN  /\ \A x \in Cols(Width) :
                  IF dirs[x + 1] # "None"
                  THEN /\ sand'[Target(x, dirs[x + 1])][i] = sand[x][i - 1]
                       /\ sand'[x][i - 1] = None
                  ELSE sand'[x][i - 1] = sand[x][i - 1]
            /\ \A c \in Cells(Width, Height) :
                  ~ Touched(c, dirs) => sand'[c[1]][c[2]] = sand[c[1]][c[2]]

\* C21: when a row pair is processed, for every source cell with a resolved
\* direction the destination cell afterwards holds what the source cell held
\* and the source cell is empty; a source cell without a resolved direction
\* keeps its grain; every cell that is neither the source nor the destination
\* of a resolved move is unchanged.
ApplyEffect == [][ApplyStep]_vars

\* one row pair was processed: a grain went diagonally to the right, another
\* grain of the source row stayed, and a grain of the destination row was
\* not touched
ApplyEffectWitness ==
    /\ pc = "done"
    /\ Height = 2
    /\ \E x \in Cols(Width) :
          /\ x + 1 \in Cols(Width)
          /\ is_some(before, x, 0)
          /\ sand[x + 1][1] = before[x][0]
          /\ sand[x][0] = None
    /\ \E x \in Cols(Width) : is_some(before, x, 0) /\ sand[x][0] = before[x][0]
    /\ \E x \in Cols(Width) : is_some(before, x, 1) /\ sand[x][1] = before[x][1]

\* run_physics_line has built its vector of requests
RequestsBuilt == pc \in {"loop", "neighbors", "converging", "apply"}

\* the program has not aborted on an index outside the array
NoAbort == pc # "panic"

\* the vector has one entry for each column
OneEntryPerColumn == RequestsBuilt => Len(requests) = Width

\* C22: for a row pair of any width W >= 1 and any occupancy,
\* run_physics_line makes no access outside the array and returns exactly W
\* entries, one for each column.
LineTotal == NoAbort /\ OneEntryPerColumn

\* the same for the widths from 3 on
LineTotalWide == Width >= 3 => LineTotal

\* a row pair of width 2 with a grain in column 0 was given: the program
\* aborted
LineAbortNarrowReached == pc = "panic" /\ Width = 2 /\ is_some(sand, 0, i - 1)

\* a row pair of width 1 without a grain was given: two entries are returned
LineTwoEntriesReached == pc = "apply" /\ Width = 1 /\ Len(requests) = 2

\* the grain of column x does not go diagonally toward a side on which the
\* cell beside it in the source row is occupied
KeepsOffNeighbor(x) ==
    LET m == Resolved(requests)[x + 1]
    IN  /\ (m = "Left" /\ x > 0) => ~ is_some(sand, x - 1, i - 1)
        /\ (m = "Right" /\ x < Width - 1) => ~ is_some(sand, x + 1, i - 1)

\* C23: for a grain of any column, column 0 and column W-1 included, if the
\* cell beside it in the source row is occupied on one side, the direction the
\* grain is moved in is not the diagonal toward that side.
SourceRowNeighborRule ==
    (LoopExit /\ Len(requests) = Width) => \A x \in Cols(Width) : KeepsOffNeighbor(x)

\* the same for the columns other than 0 and W-1
SourceRowNeighborRuleInner ==
    (LoopExit /\ Len(requests) = Width)
        => \A x \in Cols(Width) : (0 < x /\ x < Width - 1) => KeepsOffNeighbor(x)

\* the grain of column 0 goes Right although column 1 holds a grain beside it
NeighborIgnoredLeftEdgeReached ==
    /\ LoopExit
    /\ Width >= 3
    /\ Resolved(requests)[1] = "Right"
    /\ is_some(sand, 1, i - 1)

\* the grain of column W-1 goes Left although column W-2 holds a grain
\* beside it
NeighborIgnoredRightEdgeReached ==
    /\ LoopExit
    /\ Width >= 3
    /\ Resolved(requests)[Width] = "Left"
    /\ is_some(sand, Width - 2, i - 1)

\* column x, not column 0, holds a grain of the source row and the cell
\* below it is empty
FreeBelow(x) == x >= 1 /\ is_some(sand, x, i - 1) /\ ~ is_some(sand, x, i)

\* the request of such a grain is Down, or a diagonal with Down to fall back to
DownAtHand ==
    (RequestsBuilt /\ Len(requests) = Width) =>
        \A x \in Cols(Width) :
            FreeBelow(x) => \/ requests[x + 1].d = "Down"
                            \/ /\ requests[x + 1].d \in {"Left", "Right"}
                               /\ requests[x + 1].next = "Down"

\* when the pair is processed such a grain leaves its cell
FreeBelowMoves ==
    (ApplyTaken /\ Len(requests) = Width) =>
        \A x \in Cols(Width) : FreeBelow(x) => sand'[x][i - 1] = None

\* C27: a grain of any column other than column 0 whose cell directly below
\* is empty is moved, Down or diagonally, when its row pair is processed: its
\* request is Down, which no step vetoes, or a diagonal that has Down to fall
\* back to, so the resolution never leaves it without a move.
FreeBelowAlwaysMoves == []DownAtHand /\ [][FreeBelowMoves]_vars

\* columns 1 and 3 of a row pair of width 4 hold the only grains, the row
\* below is empty, both asked for the column between them and one bit was
\* drawn: the loser goes Down, the other diagonally
FreeBelowAlwaysMovesWitness ==
    /\ LoopExit
    /\ Len(requests) = 4
    /\ rngBools = 1
    /\ FreeBelow(1) /\ FreeBelow(3)
    /\ ~ is_some(sand, 0, i - 1) /\ ~ is_some(sand, 2, i - 1)
    /\ \A x \in Cols(Width) : ~ is_some(sand, x, i)
    /\ requests[2] = Req("Down", "None")
    /\ requests[4] = Req("Left", "Down")

\* a tick leaves grid as it is whatever the draws: on no row pair does the
\* call abort, and every grain above the bottom row is given [true, true, true]
Settled(grid, w, h) ==
    \A row \in 1 .. (h - 1) :
        /\ ~ LineIndexOutOfRange(grid, w, row)
        /\ \A e \in 0 .. (NumEntries(w) - 1) :
              is_some(grid, EntryCol(e, w), row - 1)
                  => SandUnder(grid, w, row, e) = <<TRUE, TRUE, TRUE>>

AtRest == Settled(sand, Width, Height)

\* what the bottom row holds is found in no other cell after the step
BottomRowStays ==
    \A x \in Cols(Width) :
        is_some(sand, x, Height - 1) =>
            \A c \in Cells(Width, Height) :
                sand'[c[1]][c[2]] = sand[x][Height - 1] => c = <<x, Height - 1>>

\* C28: from any grid, with no grain added, the repeated ticks reach after
\* finitely many of them, whatever the draws, a grid that no further tick can
\* change, and no grain of the bottom row is moved.
Settles == <>[]AtRest /\ [][BottomRowStays]_vars

\* the same for the grids at least 3 columns wide
SettlesWide == <>[](Width >= 3 => AtRest) /\ [][BottomRowStays]_vars

\* a tick is given a grid of width 2 with a grain in column 0 above the
\* bottom row: the program aborts on a grid that is not at rest
AbortedUnsettledReached == pc = "panic" /\ ~ AtRest

\* a tick that moved a grain has left a grid at rest
SettledAfterMoveReached == pc = "done" /\ sand # before /\ AtRest

\* a RemoveLine animation is set and no call of update is under way: the
\* update that detected the group has returned, the one that completes the
\* animation has not begun
AnimationRunning == animation # NoAnimation /\ upc = "idle"

\* a step taken then leaves the grid alone, unless it is the update that
\* completes the animation or the reset
FrozenStep == AnimationRunning => (sand' = sand \/ UpdateEnter \/ ReleaseR)

\* C24: from the update in which a spanning group is detected and a
\* RemoveLine animation is set until the update in which that animation
\* completes, no update call and no input event other than the reset modifies
\* the sand grid.
FrozenDuringAnimation == [][FrozenStep]_vars

\* the same for the update calls alone
FrozenUpdateStep == AnimationRunning => (sand' = sand \/ UpdateEnter \/ PressKey \/ ReleaseR)

FrozenForUpdates == [][FrozenUpdateStep]_vars

\* while the animation runs a block has been put into the grid: the grid
\* holds a grain more than the cells recorded for removal allow for
SettledDuringAnimationReached ==
    /\ AnimationRunning
    /\ falling_block = NoBlock
    /\ combo = 0
    /\ CountGrains(sand, Width, Height) > Len(animation[1])
    /\ spawned = MaxBlocks

\* the cells recorded when the group was detected
Recorded == {animation[1][n] : n \in 1 .. Len(animation[1])}

\* the step is the part of update that completes the RemoveLine animation
Completes == upc = "idle" /\ upc' = "controls" /\ animation # NoAnimation

\* the step is the processing of a row pair by the physics tick
MovesGrains == pc = "apply" /\ pc' # "apply"

\* what the completion does: the recorded cells, all of them occupied, are
\* empty afterwards and every other cell is as it was; the combo goes up by
\* one and the score by the number of cells times the new combo
CompletionStep ==
    Completes =>
        /\ \A c \in Cells(Width, Height) :
              IF c \in Recorded
              THEN sand[c[1]][c[2]] # None /\ sand'[c[1]][c[2]] = None
              ELSE sand'[c[1]][c[2]] = sand[c[1]][c[2]]
        /\ combo' = combo + 1
        /\ score' = score + Cardinality(Recorded) * (combo + 1)
        /\ animation' = NoAnimation

\* a cell becomes empty only in the completion, in the reset, or when the
\* physics tick moves its grain to the row below
NoOtherClearing ==
    \A c \in Cells(Width, Height) :
        (sand[c[1]][c[2]] # None /\ sand'[c[1]][c[2]] = None)
            => \/ Completes
               \/ ReleaseR
               \/ /\ MovesGrains
                  /\ c[2] = i - 1
                  /\ Resolved(requests)[c[1] + 1] # "None"

\* C25: when a RemoveLine animation completes, exactly the cells recorded at
\* the detection are set empty and no other cell is changed by the clearing;
\* the combo is first incremented by 1 and the score then grows by the number
\* of cleared cells times the incremented combo; at no other point is a cell
\* cleared except by reset.
RemoveLineCompletion == [][CompletionStep /\ NoOtherClearing]_vars

\* an animation has just completed: the grid was cleared of its three
\* recorded cells, the combo is 1 and the score 3
RemoveLineCompletionWitness ==
    /\ upc = "controls"
    /\ animation = NoAnimation
    /\ combo = 1
    /\ score = 3
    /\ spawned >= 3

\* the same with a grain outside the group left on the board, which takes a
\* key press
RemoveLineLeavesOthersReached ==
    /\ RemoveLineCompletionWitness
    /\ CountGrains(sand, Width, Height) > 0

\* the changes of mode other than by reset: the pause toggle between Playing
\* and Paused, and the end of the game
ModeChanges ==
    {<<"Playing", "Paused">>, <<"Paused", "Playing">>, <<"Playing", "GameOver">>}

\* a step changes the mode only along ModeChanges, unless it is the reset
ModeStep == play_mode' # play_mode => (<<play_mode, play_mode'>> \in ModeChanges \/ ReleaseR)

\* while the mode is Paused or GameOver a step that is not the reset leaves
\* the grid, the block, the score and the combo as they are, and no update
\* gets past its first test
HaltedStep ==
    play_mode # "Playing" =>
        \/ ReleaseR
        \/ /\ upc = "idle" /\ upc' = "idle"
           /\ sand' = sand
           /\ falling_block' = falling_block
           /\ score' = score
           /\ combo' = combo
           /\ animation' = animation

\* C26: GameOver is left only by reset, never by the pause toggle, which
\* changes the mode only between Playing and Paused; while the mode is Paused
\* or GameOver update changes nothing and key presses neither move nor settle
\* the falling block, so grid, score and combo stay as they are until the
\* mode is Playing again or the reset occurs.
PlayModeMachine == [][ModeStep /\ HaltedStep]_vars

\* the game is over and an event was handled since: the drop is queued, which
\* the update that ended the game had unset
PlayModeMachineWitness ==
    /\ play_mode = "GameOver"
    /\ queue_drop
    /\ falling_block # NoBlock
    /\ \E d \in Directions : control_updates[d]

\* the game is paused with a block falling, its keys held and the drop queued
PausedWithBlockReached ==
    /\ play_mode = "Paused"
    /\ queue_drop
    /\ falling_block # NoBlock
    /\ \A d \in Directions : control_updates[d]

\* the reset has been used after the end of a game: the mode is Playing, the
\* grid empty and the combo 1
ResetAfterGameOverReached ==
    /\ play_mode = "Playing"
    /\ upc = "idle"
    /\ combo = 1
    /\ score = 0
    /\ spawned = MaxBlocks
    /\ falling_block = NoBlock
    /\ CountGrains(sand, Width, Height) = 0

====
